---- MODULE Spec2Model ----
(***************************************************************************)
(* DAX Stock Visualizer (DAX_Visualizer.py): the indicator functions       *)
(* (rsi, sma), the memoized loaders, the panel layout of plot_price and    *)
(* the top-to-bottom script run that Streamlit repeats on every user       *)
(* interaction.                                                            *)
(***************************************************************************)
EXTENDS Integers, Sequences, FiniteSets, TLC

\* ---------------------------------------------------------------- bounds
MaxLen == 2        \* longest price series the provider returns in a script run
MaxPrice == 3      \* closes tried on the indicator functions alone: 1..MaxPrice
MaxPeriod == 3     \* windows tried on the indicator functions alone
MaxSeriesLen == 4  \* longest series tried on the indicator functions alone

\* ------------------------------------------------------ program constants
GridRows == 14             \* plt.subplot(14, 1, ...)
DefaultRsiPeriods == 14    \* slider default of rsi_periods
MinRsiPeriods == 5         \* slider minimum of rsi_periods

\* ------------------------------------------- float64 values, kept exact
\* A value is finite (a reduced fraction n/d), +/-infinity (sign in n) or
\* not-a-number, with the IEEE rules pandas/numpy apply to them.
RECURSIVE GCD(_, _)
GCD(a, b) == IF b = 0 THEN a ELSE GCD(b, a % b)

Abs(x) == IF x < 0 THEN -x ELSE x

Sign(x) == IF x < 0 THEN -1 ELSE IF x > 0 THEN 1 ELSE 0

NaN == [k |-> "nan", n |-> 0, d |-> 1]

Inf(s) == [k |-> "inf", n |-> s, d |-> 1]

Fin(n, d) ==
    LET s == IF d < 0 THEN -1 ELSE 1
        g == GCD(Abs(n), Abs(d))
    IN  [k |-> "fin", n |-> (s * n) \div g, d |-> (s * d) \div g]

Num(i) == Fin(i, 1)

RNeg(a) ==
    IF a.k = "nan" THEN NaN
    ELSE IF a.k = "inf" THEN Inf(-a.n)
    ELSE Fin(-a.n, a.d)

RAdd(a, b) ==
    IF a.k = "nan" \/ b.k = "nan" THEN NaN
    ELSE IF a.k = "inf" /\ b.k = "inf" THEN (IF a.n = b.n THEN a ELSE NaN)
    ELSE IF a.k = "inf" THEN a
    ELSE IF b.k = "inf" THEN b
    ELSE Fin(a.n * b.d + b.n * a.d, a.d * b.d)

RSub(a, b) == RAdd(a, RNeg(b))

RMul(a, b) ==
    IF a.k = "nan" \/ b.k = "nan" THEN NaN
    ELSE IF a.k = "inf" \/ b.k = "inf"
         THEN (IF a.n = 0 \/ b.n = 0 THEN NaN ELSE Inf(Sign(a.n) * Sign(b.n)))
    ELSE Fin(a.n * b.n, a.d * b.d)

\* Division of non-negative-zero operands: x/0 is +/-inf, 0/0 is NaN.
RDiv(a, b) ==
    IF a.k = "nan" \/ b.k = "nan" THEN NaN
    ELSE IF a.k = "inf" THEN (IF b.k = "inf" THEN NaN
                              ELSE Inf(a.n * (IF b.n < 0 THEN -1 ELSE 1)))
    ELSE IF b.k = "inf" THEN Num(0)
    ELSE IF b.n = 0 THEN (IF a.n = 0 THEN NaN ELSE Inf(Sign(a.n)))
    ELSE Fin(a.n * b.d, a.d * b.n)

\* ------------------------------------------------------ pandas primitives
\* Series.diff(): no value at the first position.
diff(s) == [i \in 1..Len(s) |-> IF i = 1 THEN NaN ELSE RSub(s[i], s[i-1])]

\* Series.clip(lower=0) and Series.clip(upper=0); NaN stays NaN.
clipLower0(s) ==
    [i \in 1..Len(s) |-> IF s[i].k = "fin" /\ s[i].n < 0 THEN Num(0) ELSE s[i]]

clipUpper0(s) ==
    [i \in 1..Len(s) |-> IF s[i].k = "fin" /\ s[i].n > 0 THEN Num(0) ELSE s[i]]

\* Series.ewm(com=com, adjust=False).mean(): alpha = 1/(1+com); the first
\* defined observation seeds the average, NaN before it.
RECURSIVE ewmAt(_, _, _)
ewmAt(s, com, i) ==
    IF i = 0 THEN NaN
    ELSE LET prev == ewmAt(s, com, i - 1)
         IN  IF s[i].k = "nan" THEN prev
             ELSE IF prev.k = "nan" THEN s[i]
             ELSE RAdd(RMul(Fin(com, com + 1), prev), RMul(Fin(1, com + 1), s[i]))

ewm(s, com) == [i \in 1..Len(s) |-> ewmAt(s, com, i)]

\* ------------------------------------------------------------ indicators
ema_up(series, periods) == ewm(clipLower0(diff(series)), periods - 1)

ema_down(series, periods) ==
    ewm([i \in 1..Len(series) |-> RMul(Num(-1), clipUpper0(diff(series))[i])],
        periods - 1)

\* rsi with the ratio taken as loss over gain.
rsiInverted(series, periods) ==
    LET up == ema_up(series, periods)
        down == ema_down(series, periods)
    IN  [i \in 1..Len(series) |->
            RSub(Num(100), RDiv(Num(100), RAdd(Num(1), RDiv(down[i], up[i]))))]

\* rs = ema_up / ema_down; rsi = 100 - (100 / (1 + rs)).
rsi(series, periods) ==
    LET up == ema_up(series, periods)
        down == ema_down(series, periods)
    IN  [i \in 1..Len(series) |->
            RSub(Num(100), RDiv(Num(100), RAdd(Num(1), RDiv(up[i], down[i]))))]

\* Series.rolling(period).mean(): a running sum that adds the entering
\* observation and removes the leaving one; min_periods = period.
RECURSIVE rollSum(_, _, _)
rollSum(s, period, i) ==
    IF i = 0 THEN Num(0)
    ELSE LET added == RAdd(rollSum(s, period, i - 1), s[i])
         IN  IF i > period THEN RSub(added, s[i - period]) ELSE added

rollNobs(period, i) == IF i > period THEN period ELSE i

\* sma whose first defined value comes one position late.
smaLate(series, period) ==
    [i \in 1..Len(series) |->
        IF rollNobs(period, i) < period \/ i = period THEN NaN
        ELSE RDiv(rollSum(series, period, i), Num(rollNobs(period, i)))]

sma(series, period) ==
    [i \in 1..Len(series) |->
        IF rollNobs(period, i) < period THEN NaN
        ELSE RDiv(rollSum(series, period, i), Num(rollNobs(period, i)))]

\* ------------------------------------------------------- the user's inputs
\* One symbol of the scraped list and two of the three intervals: the price
\* memo gets two keys, the holder memos one.
Tickers == {"ADS.DE"}

StartDate == "2019-01-01"

EndDate == "today"

IntervalChoices == {"1 day", "1 week"}

RsiPeriodChoices == {MinRsiPeriods, DefaultRsiPeriods}

\* The sidebar widgets of one script run: the module globals they set.
Configs ==
    [ticker : Tickers, interval : IntervalChoices,
     sma_1 : BOOLEAN, sma_2 : BOOLEAN, rsi_1 : BOOLEAN,
     rsi_periods : RsiPeriodChoices, volume : BOOLEAN]

DefaultConfig ==
    [ticker |-> "ADS.DE", interval |-> "1 day",
     sma_1 |-> TRUE, sma_2 |-> TRUE, rsi_1 |-> TRUE,
     rsi_periods |-> DefaultRsiPeriods, volume |-> TRUE]

convert_interval(interval) ==
    IF interval = "1 day" THEN "1d"
    ELSE IF interval = "1 week" THEN "1wk"
    ELSE IF interval = "1 month" THEN "1mo"
    ELSE interval

\* --------------------------------------------------- the data provider
\* yf.download answers with a frame of N >= 0 fully defined rows (an empty
\* frame for an unknown symbol or an empty range) or raises.
\* In a script run the closes take two levels: which rows survive dropna
\* depends only on where the price first moves, and in which direction.
PriceLevels == {1, 2}

PriceSeqs == UNION {[1..n -> PriceLevels] : n \in 0..MaxLen}

PriceOutcomes ==
    {[raise |-> TRUE, rows |-> <<>>]} \cup {[raise |-> FALSE, rows |-> r] : r \in PriceSeqs}

\* Ticker(...).major_holders / .institutional_holders: a frame, None, or
\* an exception.
HolderOutcomes == {"frame", "none", "raise"}

\* ------------------------------------------------------------- the frame
\* A cached price frame: its rows (timestamp, Adj Close, RSI value), the
\* window in the name of its "RSI (n)" column, whether it has a "Date"
\* column.
NoEntry == [present |-> FALSE]

dropna(rows) == SelectSeq(rows, LAMBDA r : r.rsi.k # "nan")

\* load_price_data without the dropna.
load_price_dataKeepNa(raw, rsi_periods) ==
    LET closes == [i \in 1..Len(raw) |-> Num(raw[i])]
        col == rsi(closes, rsi_periods)
        data == [i \in 1..Len(raw) |->
                    [ts |-> i, close |-> raw[i], rsi |-> col[i]]]
    IN  [present |-> TRUE, rows |-> data,
         rsicol |-> rsi_periods, date |-> FALSE]

\* Body of load_price_data, run on a cache miss.
load_price_data(raw, rsi_periods) ==
    LET closes == [i \in 1..Len(raw) |-> Num(raw[i])]
        col == rsi(closes, rsi_periods)
        data == [i \in 1..Len(raw) |->
                    [ts |-> i, close |-> raw[i], rsi |-> col[i]]]
    IN  [present |-> TRUE, rows |-> dropna(data),
         rsicol |-> rsi_periods, date |-> FALSE]

\* The memo key of load_price_data: its call arguments. The global
\* rsi_periods, which the body reads, is not one of them.
PriceKey(c) == <<c.ticker, StartDate, EndDate, convert_interval(c.interval)>>

PriceKeys == {PriceKey(c) : c \in Configs}

\* ---------------------------------------------------------- plot_price
price_panel == [name |-> "price", first |-> 1, last |-> 7]

oscillator_panel == [name |-> "oscillator", first |-> 9, last |-> 10]

\* volume_panel one row taller under the oscillator panel.
volume_panelTall(rsi_1) ==
    IF rsi_1 THEN [name |-> "volume", first |-> 11, last |-> 14]
    ELSE [name |-> "volume", first |-> 9, last |-> 10]

\* volume_panel starting on the last row of the oscillator panel.
volume_panelOverlap(rsi_1) ==
    IF rsi_1 THEN [name |-> "volume", first |-> 10, last |-> 12]
    ELSE [name |-> "volume", first |-> 9, last |-> 10]

volume_panel(rsi_1) ==
    IF rsi_1 THEN [name |-> "volume", first |-> 12, last |-> 14]
    ELSE [name |-> "volume", first |-> 9, last |-> 10]

reference_lines == <<1, 99, 15, 85, 30, 70>>

NoFigure == [panels |-> <<>>, malines |-> 0, reflines |-> <<>>, bars |-> 0]

\* add_date that also renumbers the index.
add_dateResetIndex(df) ==
    [df EXCEPT !.date = TRUE,
               !.rows = [i \in 1..Len(@) |-> [@[i] EXCEPT !.ts = i]]]

\* add_date that also drops the first row.
add_dateDropFirst(df) ==
    [df EXCEPT !.date = TRUE, !.rows = IF Len(@) = 0 THEN @ ELSE Tail(@)]

\* df["Date"] = df.index, on the object handed in.
add_date(df) == [df EXCEPT !.date = TRUE]

\* df[f"RSI ({rsi_periods})"] raises KeyError unless the frame has it.
has_rsi_column(df, c) == df.rsicol = c.rsi_periods

\* plot_panels with the volume block nested under `if rsi_1`.
plot_panelsNested(c) ==
    <<price_panel>>
    \o (IF c.rsi_1
        THEN <<oscillator_panel>>
             \o (IF c.volume THEN <<volume_panel(c.rsi_1)>> ELSE <<>>)
        ELSE <<>>)

plot_panels(c) ==
    <<price_panel>>
    \o (IF c.rsi_1 THEN <<oscillator_panel>> ELSE <<>>)
    \o (IF c.volume THEN <<volume_panel(c.rsi_1)>> ELSE <<>>)

\* plot_price that draws one more line when the frame came with a "Date"
\* column.
plot_priceSeesDate(price_data, c) ==
    LET df == add_date(price_data)
    IN  IF c.rsi_1 /\ ~has_rsi_column(df, c)
        THEN [raised |-> TRUE, df |-> df, fig |-> NoFigure]
        ELSE [raised |-> FALSE, df |-> df,
              fig |-> [panels |-> plot_panels(c),
                       malines |-> (IF c.sma_1 THEN 1 ELSE 0) + (IF c.sma_2 THEN 1 ELSE 0)
                                   + (IF price_data.date THEN 1 ELSE 0),
                       reflines |-> IF c.rsi_1 THEN reference_lines ELSE <<>>,
                       bars |-> IF c.volume THEN Len(df.rows) ELSE 0]]

\* The figure is described by its panels, the number of moving-average
\* lines over the price line, the reference lines of the oscillator panel
\* and the number of volume bars (one per row of the frame).
plot_price(price_data, c) ==
    LET df == add_date(price_data)
    IN  IF c.rsi_1 /\ ~has_rsi_column(df, c)
        THEN [raised |-> TRUE, df |-> df, fig |-> NoFigure]
        ELSE [raised |-> FALSE, df |-> df,
              fig |-> [panels |-> plot_panels(c),
                       malines |-> (IF c.sma_1 THEN 1 ELSE 0) + (IF c.sma_2 THEN 1 ELSE 0),
                       reflines |-> IF c.rsi_1 THEN reference_lines ELSE <<>>,
                       bars |-> IF c.volume THEN Len(df.rows) ELSE 0]]

\* plot_major_holders indexes its argument: None raises TypeError.
plot_major_holders_raises(major_holders) == major_holders = "none"

\* ------------------------------------------------------------------ state
VARIABLES
    cfg,          \* the sidebar globals of the current script run
    price_cache,  \* memo of load_price_data: key -> frame object
    inst_cache,   \* memo of load_institutional_holders: ticker -> result
    major_cache,  \* memo of load_major_holders: ticker -> result
    pc,           \* the statement the script run is at
    run,          \* what the current script run has done so far
    series,       \* indicator functions alone: the input series
    periods,      \* indicator functions alone: the window
    result        \* indicator functions alone: the function applied and its output

vars == <<cfg, price_cache, inst_cache, major_cache, pc, run, series, periods, result>>

NoPlot == [plot |-> "skipped", fig |-> NoFigure]

NoRun ==
    [n |-> 0, price |-> "none", inst |-> "skipped", major |-> "skipped",
     fetched |-> -1, plot |-> "skipped", fig |-> NoFigure,
     emitted |-> <<>>, outcome |-> "none", prev |-> NoPlot]

NoResult == [fn |-> "none", out |-> <<>>]

Init ==
    /\ cfg = DefaultConfig
    /\ price_cache = [k \in PriceKeys |-> NoEntry]
    /\ inst_cache = [t \in Tickers |-> "absent"]
    /\ major_cache = [t \in Tickers |-> "absent"]
    /\ pc = "idle"
    /\ run = NoRun
    /\ series = <<>>
    /\ periods = 1
    /\ result = NoResult

Indicators == <<series, periods, result>>

\* ---------------------------------------------------------- one script run
\* Streamlit executes the script top to bottom on every interaction; an
\* uncaught exception ends the run and leaves on the page what was emitted
\* before it.

\* Lines 185-196: the sidebar widgets set the globals of this run.
Sidebar(c) ==
    /\ pc = "idle"
    /\ cfg' = c
    /\ run' = [NoRun EXCEPT !.n = 1]
    /\ pc' = "load_price_data"
    /\ UNCHANGED <<price_cache, inst_cache, major_cache, Indicators>>

\* The same lines when the interaction leaves every sidebar widget as it
\* was (the 'Show Dataframe' button, a manual rerun): the run that follows
\* has the inputs of the run that just ended, whose plot_price result is
\* remembered in run.prev.
SidebarUnchanged ==
    /\ pc = "done"
    /\ run' = [NoRun EXCEPT !.n = 1,
                            !.prev = [plot |-> run.plot, fig |-> run.fig]]
    /\ pc' = "load_price_data"
    /\ UNCHANGED <<cfg, price_cache, inst_cache, major_cache, Indicators>>

\* The script run is over: its globals are gone, the memo caches stay.
ScriptEnd ==
    /\ pc = "done"
    /\ cfg' = DefaultConfig
    /\ run' = NoRun
    /\ pc' = "idle"
    /\ UNCHANGED <<price_cache, inst_cache, major_cache, Indicators>>

Fail(r) == [r EXCEPT !.outcome = "failed"]

\* Line 200: price_data = load_price_data(...), memoized.
LoadPriceData ==
    /\ pc = "load_price_data"
    /\ LET key == PriceKey(cfg)
       IN  IF price_cache[key].present
           THEN /\ run' = [run EXCEPT !.price = "hit"]
                /\ pc' = "load_institutional_holders"
                /\ UNCHANGED price_cache
           ELSE \E pr \in PriceOutcomes :
                  IF pr.raise
                  THEN /\ run' = Fail([run EXCEPT !.price = "raise"])
                       /\ pc' = "done"
                       /\ UNCHANGED price_cache
                  ELSE /\ price_cache' = [price_cache EXCEPT
                              ![key] = load_price_data(pr.rows, cfg.rsi_periods)]
                       /\ run' = [run EXCEPT
                              !.price = IF Len(pr.rows) = 0 THEN "norows" ELSE "rows",
                              !.fetched = Len(pr.rows)]
                       /\ pc' = "load_institutional_holders"
    /\ UNCHANGED <<cfg, inst_cache, major_cache, Indicators>>

\* Line 201: load_institutional_holders(ticker), memoized; None.drop(...)
\* raises AttributeError.
LoadInstitutionalHolders ==
    /\ pc = "load_institutional_holders"
    /\ IF inst_cache[cfg.ticker] # "absent"
       THEN /\ run' = [run EXCEPT !.inst = "hit"]
            /\ pc' = "load_major_holders"
            /\ UNCHANGED inst_cache
       ELSE \E io \in HolderOutcomes :
              IF io = "frame"
              THEN /\ inst_cache' = [inst_cache EXCEPT ![cfg.ticker] = "frame"]
                   /\ run' = [run EXCEPT !.inst = io]
                   /\ pc' = "load_major_holders"
              ELSE /\ run' = Fail([run EXCEPT !.inst = io])
                   /\ pc' = "done"
                   /\ UNCHANGED inst_cache
    /\ UNCHANGED <<cfg, price_cache, major_cache, Indicators>>

\* Line 202: load_major_holders(ticker), memoized; returns what the
\* provider gave, None included.
LoadMajorHolders ==
    /\ pc = "load_major_holders"
    /\ IF major_cache[cfg.ticker] # "absent"
       THEN /\ run' = [run EXCEPT !.major = "hit"]
            /\ pc' = "plot_price"
            /\ UNCHANGED major_cache
       ELSE \E mo \in HolderOutcomes :
              IF mo = "raise"
              THEN /\ run' = Fail([run EXCEPT !.major = mo])
                   /\ pc' = "done"
                   /\ UNCHANGED major_cache
              ELSE /\ major_cache' = [major_cache EXCEPT ![cfg.ticker] = mo]
                   /\ run' = [run EXCEPT !.major = mo]
                   /\ pc' = "plot_price"
    /\ UNCHANGED <<cfg, price_cache, inst_cache, Indicators>>

\* Line 210: plot_price(price_data) on the memoized object.
PlotPrice ==
    /\ pc = "plot_price"
    /\ LET key == PriceKey(cfg)
           plotted == plot_price(price_cache[key], cfg)
       IN  /\ price_cache' = [price_cache EXCEPT ![key] = plotted.df]
           /\ IF plotted.raised
              THEN /\ run' = Fail([run EXCEPT !.plot = "KeyError"])
                   /\ pc' = "done"
              ELSE /\ run' = [run EXCEPT !.plot = "shown", !.fig = plotted.fig,
                                         !.emitted = Append(@, "price_figure")]
                   /\ pc' = "plot_major_holders"
    /\ UNCHANGED <<cfg, inst_cache, major_cache, Indicators>>

\* Lines 213-222: plot_major_holders(major_holders), then the two tables;
\* the price table only when the button is pressed.
PlotMajorHolders ==
    /\ pc = "plot_major_holders"
    /\ IF plot_major_holders_raises(major_cache[cfg.ticker])
       THEN run' = Fail(run)
       ELSE \E button \in BOOLEAN :
              run' = [run EXCEPT
                  !.outcome = "ok",
                  !.emitted = @ \o <<"holders_figure", "institutional_table">>
                                \o (IF button THEN <<"price_table">> ELSE <<>>)]
    /\ pc' = "done"
    /\ UNCHANGED <<cfg, price_cache, inst_cache, major_cache, Indicators>>

Next ==
    \/ \E c \in Configs : Sidebar(c)
    \/ SidebarUnchanged
    \/ ScriptEnd
    \/ LoadPriceData
    \/ LoadInstitutionalHolders
    \/ LoadMajorHolders
    \/ PlotPrice
    \/ PlotMajorHolders

Spec == Init /\ [][Next]_vars

\* ------------------------------------------- the indicator functions alone
IndicatorSeqs == UNION {[1..n -> 1..MaxPrice] : n \in 0..MaxSeriesLen}

Nums(s) == [i \in 1..Len(s) |-> Num(s[i])]

InitIndicators ==
    /\ cfg = DefaultConfig
    /\ price_cache = [k \in PriceKeys |-> NoEntry]
    /\ inst_cache = [t \in Tickers |-> "absent"]
    /\ major_cache = [t \in Tickers |-> "absent"]
    /\ pc = "idle"
    /\ run = NoRun
    /\ series \in IndicatorSeqs
    /\ periods \in 1..MaxPeriod
    /\ result = NoResult

Pipeline == <<cfg, price_cache, inst_cache, major_cache, pc, run>>

ApplySma ==
    /\ result.fn = "none"
    /\ result' = [fn |-> "sma", out |-> sma(Nums(series), periods)]
    /\ UNCHANGED <<series, periods, Pipeline>>

ApplyRsi ==
    /\ result.fn = "none"
    /\ result' = [fn |-> "rsi", out |-> rsi(Nums(series), periods)]
    /\ UNCHANGED <<series, periods, Pipeline>>

NextIndicators == ApplySma \/ ApplyRsi

SpecIndicators == InitIndicators /\ [][NextIndicators]_vars

\* =================================================================== claims
Shown == run.plot = "shown"

Panels == run.fig.panels

PanelNames == [i \in 1..Len(Panels) |-> Panels[i].name]

Rows(p) == p.last - p.first + 1

PanelNamed(name) == CHOOSE p \in {Panels[i] : i \in 1..Len(Panels)} : p.name = name

HasPanel(name) == \E i \in 1..Len(Panels) : Panels[i].name = name

CurrentFrame == price_cache[PriceKey(cfg)]

\* C1: in every figure plot_price shows, the panels are, top to bottom, the
\* price panel, the oscillator panel iff rsi_1 is set and the volume panel
\* iff volume is set; their number is 1 + [rsi_1] + [volume], one panel
\* when both flags are off.
C1_PanelsFollowFlags ==
    Shown =>
        /\ PanelNames = <<"price">>
                        \o (IF cfg.rsi_1 THEN <<"oscillator">> ELSE <<>>)
                        \o (IF cfg.volume THEN <<"volume">> ELSE <<>>)
        /\ Len(Panels) = 1 + (IF cfg.rsi_1 THEN 1 ELSE 0) + (IF cfg.volume THEN 1 ELSE 0)
        /\ \A i \in 1..(Len(Panels) - 1) : Panels[i].first < Panels[i+1].first
        /\ (~cfg.rsi_1 /\ ~cfg.volume) => Len(Panels) = 1

C1_Witness == Shown /\ ~cfg.rsi_1 /\ cfg.volume /\ Len(Panels) = 2

\* C2 as stated: the price panel is rows 1-7, the oscillator panel has 2
\* rows, the volume panel has 3 rows with and without the oscillator panel.
C2_VolumeAlwaysThreeRows ==
    Shown =>
        /\ Panels[1] = [name |-> "price", first |-> 1, last |-> 7]
        /\ HasPanel("oscillator") => Rows(PanelNamed("oscillator")) = 2
        /\ HasPanel("volume") => Rows(PanelNamed("volume")) = 3

\* C2 amended: the price panel is rows 1-7, the oscillator panel has 2
\* rows (9-10); the volume panel has 3 rows (12-14) when the oscillator
\* panel is present and 2 rows (9-10, the oscillator's slot) when it is
\* absent.
C2_PanelHeights ==
    Shown =>
        /\ Panels[1] = [name |-> "price", first |-> 1, last |-> 7]
        /\ HasPanel("oscillator") =>
              /\ Rows(PanelNamed("oscillator")) = 2
              /\ PanelNamed("oscillator").first = 9
        /\ HasPanel("volume") =>
              IF cfg.rsi_1
              THEN Rows(PanelNamed("volume")) = 3 /\ PanelNamed("volume").first = 12
              ELSE Rows(PanelNamed("volume")) = 2 /\ PanelNamed("volume").first = 9

C2_Witness == Shown /\ ~cfg.rsi_1 /\ HasPanel("volume")

\* C3: in every figure plot_price shows, the panels' row ranges lie in
\* 1..14 and are pairwise disjoint; with both flags set the volume panel
\* starts strictly below the last row of the oscillator panel.
C3_PanelsDisjoint ==
    Shown =>
        /\ \A i \in 1..Len(Panels) :
              1 <= Panels[i].first /\ Panels[i].first <= Panels[i].last
              /\ Panels[i].last <= GridRows
        /\ \A i, j \in 1..Len(Panels) :
              i # j => (Panels[i].last < Panels[j].first \/ Panels[j].last < Panels[i].first)
        /\ (cfg.rsi_1 /\ cfg.volume) =>
              PanelNamed("volume").first > PanelNamed("oscillator").last

C3_Witness == Shown /\ cfg.rsi_1 /\ cfg.volume /\ Len(Panels) = 3

AllPanels == cfg.sma_1 /\ cfg.sma_2 /\ cfg.rsi_1 /\ cfg.volume

Fetched == run.price \in {"rows", "norows"}

\* C4 as stated: a run that fetched N records and shows the figure with
\* every panel enabled has 3 panels, 2 moving-average lines, 6 reference
\* lines and N volume bars.
C4_OneBarPerFetchedRecord ==
    (Shown /\ Fetched /\ AllPanels) =>
        /\ Len(Panels) = 3
        /\ run.fig.malines = 2
        /\ Len(run.fig.reflines) = 6
        /\ run.fig.bars = run.fetched

\* C4 amended: such a run has 3 panels, 2 moving-average lines, 6
\* reference lines and one volume bar per row load_price_data kept, which
\* never includes the first fetched record: at most N - 1 bars for N >= 1.
C4_OneBarPerKeptRow ==
    (Shown /\ Fetched /\ AllPanels) =>
        /\ Len(Panels) = 3
        /\ run.fig.malines = 2
        /\ Len(run.fig.reflines) = 6
        /\ run.fig.bars = Len(CurrentFrame.rows)
        /\ \A i \in 1..Len(CurrentFrame.rows) : CurrentFrame.rows[i].ts # 1
        /\ run.fetched >= 1 => run.fig.bars <= run.fetched - 1

C4_Witness ==
    Shown /\ Fetched /\ AllPanels /\ run.fetched = MaxLen /\ run.fig.bars = MaxLen - 1

Window(i) == {j \in 1..Len(series) : i - periods < j /\ j <= i}

RECURSIVE SumOver(_)
SumOver(S) == IF S = {} THEN 0 ELSE LET j == CHOOSE x \in S : TRUE
                                    IN  series[j] + SumOver(S \ {j})

\* C5: sma(S, w) is undefined at every 0-based index below w - 1 and is the
\* arithmetic mean of the w latest observations at every other index; for
\* w > len(S) it is undefined everywhere (and is still a result).
C5_SmaIsTrailingMean ==
    result.fn = "sma" =>
        /\ Len(result.out) = Len(series)
        /\ \A i \in 1..Len(series) :
              IF i - 1 < periods - 1
              THEN result.out[i] = NaN
              ELSE result.out[i] = Fin(SumOver(Window(i)), periods)
        /\ periods > Len(series) => \A i \in 1..Len(series) : result.out[i] = NaN

C5_Witness ==
    /\ result.fn = "sma" /\ periods = 2 /\ Len(series) = 3
    /\ result.out[1] = NaN /\ result.out[3] = Fin(series[2] + series[3], 2)

SmoothedGain == ema_up(Nums(series), periods)

SmoothedLoss == ema_down(Nums(series), periods)

\* C6 as stated: wherever the smoothed loss is exactly zero, rsi is 100,
\* whatever the smoothed gain, zero included.
C6_ZeroLossGivesHundred ==
    result.fn = "rsi" =>
        \A i \in 1..Len(series) :
            SmoothedLoss[i] = Num(0) => result.out[i] = Num(100)

\* C6 amended: wherever the smoothed loss is exactly zero, rsi is 100 if
\* the smoothed gain is positive and undefined (NaN) if the smoothed gain
\* is zero too.
C6_ZeroLossSaturatesOrNaN ==
    result.fn = "rsi" =>
        \A i \in 1..Len(series) :
            SmoothedLoss[i] = Num(0) =>
                /\ SmoothedGain[i].n > 0 => result.out[i] = Num(100)
                /\ SmoothedGain[i] = Num(0) => result.out[i] = NaN

C6_Witness ==
    /\ result.fn = "rsi"
    /\ \E i \in 1..Len(series) : SmoothedLoss[i] = Num(0) /\ SmoothedGain[i].n > 0
    /\ \E i \in 1..Len(series) : SmoothedLoss[i] = Num(0) /\ SmoothedGain[i] = Num(0)

ProviderFailed ==
    \/ run.price \in {"norows", "raise"}
    \/ run.inst \in {"none", "raise"}
    \/ run.major \in {"none", "raise"}

\* C7: a run in which the provider returned no rows or failed, for the
\* price series or for a holders request, ends failed with nothing
\* emitted.
C7_NoPartialChart ==
    (pc = "done" /\ ProviderFailed) => (run.outcome = "failed" /\ run.emitted = <<>>)

\* C8 as stated: once load_price_data has returned a frame, no later
\* statement changes the memoized object.
C8_FrameNeverChanges ==
    [][\A k \in PriceKeys : price_cache[k].present => price_cache'[k] = price_cache[k]]_vars

\* C8 amended: later statements never change the rows or the RSI column of
\* the memoized frame; plot_price adds a "Date" column to the object, once,
\* and that is the only change.
C8_OnlyDateIsAdded ==
    [][\A k \in PriceKeys : price_cache[k].present =>
          /\ price_cache'[k].present
          /\ price_cache'[k].rows = price_cache[k].rows
          /\ price_cache'[k].rsicol = price_cache[k].rsicol
          /\ price_cache[k].date => price_cache'[k].date]_vars

C8_Witness ==
    /\ pc = "done" /\ run.plot = "shown"
    /\ CurrentFrame.date /\ Len(CurrentFrame.rows) > 0

\* C9: a run with the inputs of the run before it, served from the memo,
\* makes the layout decision the run before it made: same panels and row
\* ranges, same lines, same bars (or the same exception).
C9_RepeatedRunSameLayout ==
    (run.prev.plot # "skipped" /\ run.price = "hit" /\ run.plot # "skipped") =>
        (run.plot = run.prev.plot /\ run.fig = run.prev.fig)

C9_Witness ==
    /\ run.prev.plot = "shown" /\ run.price = "hit" /\ run.plot = "shown"
    /\ run.fig.bars > 0

====
